---- MODULE Spec2Model ----
(***************************************************************************)
(* A state-machine model of reactive-custom-element: the CustomElement     *)
(* lifecycle wrapper (src/src/custom-element.js), the ReactiveCustomElement *)
(* subscription layer (src/src/reactive-custom-element.js) and the bundled *)
(* build of both (src/dist/index.js).                                      *)
(*                                                                         *)
(* One element is modelled.  JavaScript runs each handler to completion,   *)
(* so each handler (with every call it makes) is one action.  The host's   *)
(* timer facility is modelled by two counts of pending callbacks; the      *)
(* external store by the set of handles it has been told to unsubscribe.   *)
(***************************************************************************)
EXTENDS Integers, Sequences, FiniteSets, TLC

\* Bound on the work one behaviour asks of the element: subscriptions made,
\* render() calls made or scheduled, and listeners registered.
MaxWork == 3

Undef == "undefined"
NotReceived == "not-received"
NoName == ""
Names == {"title", "length"}
Vals == {"v1", "v2"}

\* this.tagName.replace('-', '') for an element defined as <my-element>
tagname == "MYELEMENT"

Keys == Names \cup {NoName, tagname}

\* values an unnamed subscription can deliver: whole data objects
EmptyObject == [n \in Names |-> Undef]
Objects == {EmptyObject, [EmptyObject EXCEPT !["title"] = "v1"]}

\* what parse() yields for a data-store definition: one descriptor or a list
StoreDefinitions == {<<"title">>, <<NoName>>, <<"title", "length">>}

Targets == {"this", "window"}

Builds == {"src", "dist"}

\* the class the element's own class extends
Classes == {"CustomElement", "ReactiveCustomElement"}

VARIABLES
  build,               \* which build of the classes the page loaded
  cls,                 \* which of the two classes the element extends
  connected,           \* the platform's view: element is in the document
  subscriptions,       \* this.subscriptions: key -> handle (0: no such key)
  callbackName,        \* store side: handle -> the name its callback closed over
  unsubscribed,        \* store side: handles on which unsubscribe() was called
  data,                \* this[DATA]
  lastReceived,        \* history: name -> value most recently received for it
  replaced,            \* history: names whose value a whole-object write overwrote
  events,              \* this.events: the listener removers, in order
  listeners,           \* platform side: listeners attached to the targets
  rendered,            \* this.rendered
  renderCalls,         \* history: render() calls
  templateRenders,     \* history: renderTemplate() calls
  onFirstRenderCalls,  \* history: onFirstRender() calls
  onRenderCalls,       \* history: onRender() calls
  renderedEvents,      \* history: 'rendered' events dispatched
  pendingPost,         \* timers: post-render callbacks scheduled by render()
  pendingDeferred,     \* timers: setTimeout(this.render.bind(this)) pending
  trace                \* what the handler that ran last did, in order

vars == <<build, cls, connected, subscriptions, callbackName, unsubscribed, data,
          lastReceived, replaced, events, listeners, rendered, renderCalls,
          templateRenders, onFirstRenderCalls, onRenderCalls, renderedEvents,
          pendingPost, pendingDeferred, trace>>

\* The element and its surroundings as one record, so that a handler can be
\* written as the composition of the calls it makes.
State ==
  [connected |-> connected, subscriptions |-> subscriptions,
   callbackName |-> callbackName, unsubscribed |-> unsubscribed,
   data |-> data, lastReceived |-> lastReceived, replaced |-> replaced,
   events |-> events, listeners |-> listeners, rendered |-> rendered,
   renderCalls |-> renderCalls, templateRenders |-> templateRenders,
   onFirstRenderCalls |-> onFirstRenderCalls, onRenderCalls |-> onRenderCalls,
   renderedEvents |-> renderedEvents, pendingPost |-> pendingPost,
   pendingDeferred |-> pendingDeferred, trace |-> trace]

Becomes(s) ==
  /\ connected' = s.connected
  /\ subscriptions' = s.subscriptions
  /\ callbackName' = s.callbackName
  /\ unsubscribed' = s.unsubscribed
  /\ data' = s.data
  /\ lastReceived' = s.lastReceived
  /\ replaced' = s.replaced
  /\ events' = s.events
  /\ listeners' = s.listeners
  /\ rendered' = s.rendered
  /\ renderCalls' = s.renderCalls
  /\ templateRenders' = s.templateRenders
  /\ onFirstRenderCalls' = s.onFirstRenderCalls
  /\ onRenderCalls' = s.onRenderCalls
  /\ renderedEvents' = s.renderedEvents
  /\ pendingPost' = s.pendingPost
  /\ pendingDeferred' = s.pendingDeferred
  /\ trace' = s.trace
  /\ UNCHANGED <<build, cls>>

Begin(handler) == [State EXCEPT !.trace = <<handler>>]

Log(s, what) == [s EXCEPT !.trace = Append(@, what)]

Work(s) ==
  Len(s.callbackName) + s.renderCalls + s.pendingDeferred + Len(s.events)

WithinBounds(s) == Work(s) <= MaxWork

Init ==
  /\ build \in Builds
  /\ cls \in Classes
  /\ connected = FALSE
  /\ subscriptions = [k \in Keys |-> 0]
  /\ callbackName = <<>>
  /\ unsubscribed = {}
  /\ data = EmptyObject
  /\ lastReceived = [n \in Names |-> NotReceived]
  /\ replaced = {}
  /\ events = <<>>
  /\ listeners = {}
  /\ rendered = FALSE
  /\ renderCalls = 0
  /\ templateRenders = 0
  /\ onFirstRenderCalls = 0
  /\ onRenderCalls = 0
  /\ renderedEvents = 0
  /\ pendingPost = 0
  /\ pendingDeferred = 0
  /\ trace = <<>>

---------------------------------------------------------------------------
(* CustomElement: src/src/custom-element.js (and its copy in the bundle)  *)

\* preRenderCheck() { return true; }  (the bundle's render() has no check)
preRenderCheck == TRUE

\* A render() that batches: it does nothing while a callback is pending.
render_batched(s) ==
  IF s.pendingPost + s.pendingDeferred > 0
    THEN [Log(s, "render") EXCEPT !.renderCalls = @ + 1]
    ELSE [Log(Log(Log(s, "render"), "renderTemplate"), "setTimeout:postRender")
            EXCEPT !.renderCalls = @ + 1, !.templateRenders = @ + 1,
                   !.pendingPost = @ + 1]

\* A render() that debounces its post-render callback.
render_debounced(s) ==
  [Log(Log(Log(s, "render"), "renderTemplate"), "setTimeout:postRender")
     EXCEPT !.renderCalls = @ + 1, !.templateRenders = @ + 1,
            !.pendingPost = IF @ > 0 THEN @ ELSE @ + 1]

\* render(): returns early when preRenderCheck() fails, else renders the
\* template and schedules the post-render callback (setTimeout, 200 ms).
render(s) ==
  LET called == [Log(s, "render") EXCEPT !.renderCalls = @ + 1]
  IN  IF build = "src" /\ ~preRenderCheck
        THEN called
        ELSE [Log(Log(called, "renderTemplate"), "setTimeout:postRender")
                EXCEPT !.templateRenders = @ + 1, !.pendingPost = @ + 1]

\* A post-render callback that forgets to set this.rendered.
postRenderCallback_flagNotSet(s) ==
  LET first == IF ~s.rendered
                 THEN [Log(s, "onFirstRender") EXCEPT !.onFirstRenderCalls = @ + 1]
                 ELSE s
      hooked == [Log(first, "onRender") EXCEPT !.onRenderCalls = @ + 1]
  IN  [Log(hooked, "dispatch:rendered") EXCEPT !.renderedEvents = @ + 1]

\* The arrow function render() hands to setTimeout.
postRenderCallback(s) ==
  LET first == IF ~s.rendered
                 THEN [Log(s, "onFirstRender")
                         EXCEPT !.onFirstRenderCalls = @ + 1, !.rendered = TRUE]
                 ELSE s
      hooked == [Log(first, "onRender") EXCEPT !.onRenderCalls = @ + 1]
  IN  [Log(hooked, "dispatch:rendered") EXCEPT !.renderedEvents = @ + 1]

\* A listener as the platform identifies it: target, event type, callback.
Listener(elm, event, fn) == [target |-> elm, event |-> event, fn |-> fn]

\* on(event, elm, fn); on(event, fn) arrives as elm = the callback, fn = Undef.
on(s, event, elm, fn) ==
  LET f == IF fn = Undef THEN elm ELSE fn
      e == IF fn = Undef THEN "this" ELSE elm
      l == Listener(e, event, f)
  IN  [Log(s, "addEventListener")
         EXCEPT !.listeners = @ \cup {l}, !.events = Append(@, l)]

\* A remover that detaches from the element itself, whatever the target
\* (what the off(event, fn) method does).
off_fromThis(s, i) ==
  [Log(s, "removeEventListener")
     EXCEPT !.listeners = @ \ {Listener("this", s.events[i].event, s.events[i].fn)}]

\* The remover `off` that on() pushed at position i of this.events.
off(s, i) ==
  [Log(s, "removeEventListener") EXCEPT !.listeners = @ \ {s.events[i]}]

RECURSIVE runRemovers(_, _)
runRemovers(s, i) ==
  IF i > Len(s.events) THEN s ELSE runRemovers(off(s, i), i + 1)

\* Who is invoked when `event` is dispatched on `elm`.
Invoked(ls, elm, event) ==
  {l.fn : l \in {x \in ls : x.target = elm /\ x.event = event}}

\* A disconnectedCallback that also clears the element's pending timers.
CustomElement_disconnectedCallback_clearTimeout(s) ==
  [runRemovers(s, 1) EXCEPT !.pendingPost = 0, !.pendingDeferred = 0]

\* CustomElement.disconnectedCallback of src/src/custom-element.js
CustomElement_disconnectedCallback(s) == runRemovers(s, 1)

---------------------------------------------------------------------------
(* ReactiveCustomElement: src/src/reactive-custom-element.js              *)

Handles(s) == 1..Len(s.callbackName)

\* unsubscribeFromStore(name): the entry stays in the map.
unsubscribeFromStore(s, key) ==
  IF s.subscriptions[key] # 0
    THEN [Log(s, "unsubscribe") EXCEPT !.unsubscribed = @ \cup {s.subscriptions[key]}]
    ELSE s

\* An unsubscribeFromAllStores() guarded by this.subscriptions.length, which
\* a plain object does not have.
unsubscribeFromAllStores_lengthGuard(s) ==
  IF "length" \in Keys /\ s.subscriptions["length"] # 0
    THEN Log(Log(s, "unsubscribeFromAllStores"), "TypeError")
    ELSE Log(s, "unsubscribeFromAllStores")

\* unsubscribeFromAllStores(): Object.keys() is an array, always truthy.
unsubscribeFromAllStores(s) ==
  [Log(s, "unsubscribeFromAllStores")
     EXCEPT !.unsubscribed = @ \cup ({s.subscriptions[k] : k \in Keys} \ {0}),
            !.subscriptions = [k \in Keys |-> 0]]

\* The key subscribeToStore files the handle under: name || tagname in the
\* sources, name alone in the bundle.
subscriptionKey(name) ==
  IF build = "src" THEN (IF name # NoName THEN name ELSE tagname) ELSE name

\* History only: the element is handed `value` for `name`.
receive(s, name, value) ==
  IF name # NoName
    THEN [s EXCEPT !.lastReceived[name] = value, !.replaced = @ \ {name}]
    ELSE [s EXCEPT !.replaced = {n \in Names : s.lastReceived[n] # NotReceived}]

\* A write that always assigns the whole object: this.data = data.
writeData_whole(s, name, value) ==
  [Log(s, "data=")
     EXCEPT !.data = IF name # NoName THEN EmptyObject ELSE value]

\* The write both subscribeToStore and the update callback make:
\* this.data[name] = data under a name, this.data = data without one.
writeData(s, name, value) ==
  IF name # NoName
    THEN [Log(s, "data[name]=") EXCEPT !.data[name] = value]
    ELSE [Log(s, "data=") EXCEPT !.data = value]

\* subscribeToStore(data, dorender): `value` is what getDataFromPath reads.
subscribeToStore(s, name, value, dorender) ==
  LET key == subscriptionKey(name)
      old == unsubscribeFromStore(Log(s, "subscribeToStore"), key)
      h == Len(old.callbackName) + 1
      subscribed == [old EXCEPT !.subscriptions[key] = h,
                                !.callbackName = Append(@, name)]
      written == writeData(receive(subscribed, name, value), name, value)
  IN  IF dorender THEN render(written) ELSE written

\* An update callback that renders before it writes the data.
updateData_renderFirst(s, name, value) ==
  writeData(receive(render(Log(s, "beforeUpdate")), name, value), name, value)

\* the callback updateData(name) returns
updateData(s, name, value) ==
  render(writeData(receive(Log(s, "beforeUpdate"), name, value), name, value))

\* What a descriptor's path can hold: a property value under a name, a
\* whole object without one.
ValuesFor(name) == IF name = NoName THEN Objects ELSE Vals

\* setStore(store): one subscribeToStore per parsed descriptor.
RECURSIVE setStore(_, _, _, _)
setStore(s, def, value, dorender) ==
  IF def = <<>>
    THEN s
    ELSE setStore(subscribeToStore(s, Head(def), value, dorender),
                  Tail(def), value, dorender)

\* An attributeChangedCallback that renders at once instead of deferring.
attributeChangedCallback_sync(s, attr, def, value) ==
  IF attr = "data-store"
    THEN render(setStore(Log(s, "attributeChangedCallback"), def, value, FALSE))
    ELSE Log(s, "attributeChangedCallback")

\* attributeChangedCallback(attr)
attributeChangedCallback(s, attr, def, value) ==
  IF attr = "data-store"
    THEN [Log(setStore(Log(s, "attributeChangedCallback"), def, value, FALSE),
              "setTimeout:render")
            EXCEPT !.pendingDeferred = @ + 1]
    ELSE Log(s, "attributeChangedCallback")

observedAttributes == {"data-store"}

\* ReactiveCustomElement.disconnectedCallback
disconnectedCallback(s) ==
  unsubscribeFromAllStores(CustomElement_disconnectedCallback(s))

---------------------------------------------------------------------------
(* The bundle: src/dist/index.js                                          *)

\* this.subscriptions.length: subscriptions is a plain object, so this is
\* the entry filed under "length", if any.
dist_length(s) == IF "length" \in Keys THEN s.subscriptions["length"] ELSE 0

\* unsubscribeFromAllStores() of the bundle: guarded by .length; with a
\* subscription named "length" it goes on to this.subscriptions.map, which
\* is not a function.
dist_unsubscribeFromAllStores(s) ==
  IF dist_length(s) # 0
    THEN Log(Log(s, "unsubscribeFromAllStores"), "TypeError")
    ELSE Log(s, "unsubscribeFromAllStores")

\* CustomElement.disconnectedCallback of the bundle: after the removers it
\* calls this.unsubscribeFromAllStores(), a method only ReactiveCustomElement
\* defines; on a plain CustomElement it is undefined, and calling it throws.
dist_disconnectedCallback(s) ==
  IF cls = "CustomElement"
    THEN Log(runRemovers(s, 1), "TypeError")
    ELSE dist_unsubscribeFromAllStores(runRemovers(s, 1))

---------------------------------------------------------------------------
(* Actions: one per handler the platform, the page, the store or a timer  *)
(* can invoke.                                                             *)

Do(s) == WithinBounds(s) /\ Becomes(s)

ConnectedCallback ==
  /\ ~connected
  /\ Do(render([Begin("connectedCallback") EXCEPT !.connected = TRUE]))

DisconnectedCallback ==
  /\ connected
  /\ LET s == [Begin("disconnectedCallback") EXCEPT !.connected = FALSE]
     IN  Do(IF build = "dist" THEN dist_disconnectedCallback(s)
            ELSE IF cls = "CustomElement" THEN CustomElement_disconnectedCallback(s)
            ELSE disconnectedCallback(s))

\* The page (or a parent's template) sets an attribute; the platform calls
\* attributeChangedCallback only for observed attributes.  `extra` tells
\* whether a subclass added data-title to its observedAttributes.
SetAttribute(attr, extra, def, value) ==
  LET s == Begin("setAttribute:" \o attr)
  IN  Do(IF attr \in observedAttributes \/ extra
           THEN attributeChangedCallback(s, attr, def, value)
           ELSE s)

SetDataStore ==
  \E def \in StoreDefinitions : \E value \in ValuesFor(Head(def)) :
    SetAttribute("data-store", FALSE, def, value)

SetDataTitle ==
  \E extra \in BOOLEAN : SetAttribute("data-title", extra, <<>>, Undef)

SetStore ==
  \E def \in StoreDefinitions : \E value \in ValuesFor(Head(def)) :
    Do(setStore(Begin("setStore"), def, value, TRUE))

SubscribeToStore ==
  \E name \in Names \cup {NoName} : \E value \in ValuesFor(name) :
    Do(subscribeToStore(Begin("subscribeToStore"), name, value, FALSE))

UnsubscribeFromStore ==
  \E key \in Keys : Do(unsubscribeFromStore(Begin("unsubscribeFromStore"), key))

\* The store calls the callback of a handle that is still subscribed.
StoreUpdate ==
  \E h \in Handles(State) \ unsubscribed :
    \E value \in ValuesFor(callbackName[h]) :
      Do(updateData(Begin("updateCallback"), callbackName[h], value))

On ==
  \/ Do(on(Begin("on"), "click", "fn", Undef))
  \/ Do(on(Begin("on"), "click", "window", "fn"))

Off ==
  \E i \in 1..Len(events) : Do(off(Begin("off"), i))

TimerPostRender ==
  /\ pendingPost > 0
  /\ Becomes(postRenderCallback(
       [Begin("timer:postRender") EXCEPT !.pendingPost = @ - 1]))

TimerDeferredRender ==
  /\ pendingDeferred > 0
  /\ Becomes(render([Begin("timer:render") EXCEPT !.pendingDeferred = @ - 1]))

Next ==
  \/ ConnectedCallback
  \/ DisconnectedCallback
  \/ SetDataStore
  \/ SetDataTitle
  \/ SetStore
  \/ SubscribeToStore
  \/ UnsubscribeFromStore
  \/ StoreUpdate
  \/ On
  \/ Off
  \/ TimerPostRender
  \/ TimerDeferredRender

\* The classes of src/src
SrcInit == Init /\ build = "src" /\ cls = "ReactiveCustomElement"

Spec == SrcInit /\ [][Next]_vars

\* The classes of the bundle src/dist/index.js
DistInit == Init /\ build = "dist" /\ cls = "ReactiveCustomElement"

DistSpec == DistInit /\ [][Next]_vars

\* An element of the bundle that extends plain CustomElement: it has the
\* lifecycle, listener and render methods, and no store methods.
PlainDistInit == Init /\ build = "dist" /\ cls = "CustomElement"

PlainNext ==
  \/ ConnectedCallback
  \/ DisconnectedCallback
  \/ On
  \/ Off
  \/ TimerPostRender

PlainDistSpec == PlainDistInit /\ [][PlainNext]_vars

\* The host fires every timer it was handed.
LiveSpec ==
  Spec /\ WF_vars(TimerPostRender) /\ WF_vars(TimerDeferredRender)

---------------------------------------------------------------------------
(* What the last handler was and did                                      *)

Handler == IF trace = <<>> THEN "none" ELSE Head(trace)

Did(what) == \E i \in 1..Len(trace) : trace[i] = what

Before(a, b) ==
  \E i, j \in 1..Len(trace) : i < j /\ trace[i] = a /\ trace[j] = b

Pending == pendingPost + pendingDeferred

TypeOK ==
  /\ build \in Builds
  /\ cls \in Classes
  /\ connected \in BOOLEAN
  /\ Work(State) <= MaxWork
  /\ unsubscribed \subseteq Handles(State)
  /\ \A k \in Keys : subscriptions[k] \in {0} \cup Handles(State)
  /\ \A n \in Names : data[n] \in Vals \cup {Undef}
  /\ \A n \in Names : lastReceived[n] \in Vals \cup {NotReceived}
  /\ listeners \subseteq {events[i] : i \in 1..Len(events)}
  /\ renderCalls \in 0..MaxWork
  /\ pendingPost \in 0..MaxWork
  /\ pendingDeferred \in 0..MaxWork

---------------------------------------------------------------------------
(* Claims                                                                  *)

\* C1: when disconnectedCallback of a ReactiveCustomElement has returned,
\* every subscription handle the element ever stored in subscriptions has
\* had unsubscribe() called on it, and the subscriptions map is empty.
C1_AllUnsubscribedAfterDisconnect ==
  Handler = "disconnectedCallback" =>
    /\ Handles(State) \subseteq unsubscribed
    /\ \A k \in Keys : subscriptions[k] = 0

\* C1 witness: disconnectedCallback has run on an element that had made
\* two subscriptions, the second replacing the first under the same name.
C1_Witness ==
  /\ Handler = "disconnectedCallback"
  /\ Len(callbackName) >= 2
  /\ \E g, h \in Handles(State) : g # h /\ callbackName[g] = callbackName[h]

\* C2: in the bundle, when disconnectedCallback has returned, every handle
\* subscribeToStore stored in subscriptions has had unsubscribe() called on it.
C2_DistAllUnsubscribedAfterDisconnect ==
  Handler = "disconnectedCallback" => Handles(State) \subseteq unsubscribed

\* C3 as claimed: for every name that has received a value, data[name] is
\* the value most recently received for that name, whatever named and
\* unnamed snapshots and updates arrived.
C3_DataIsLastReceived ==
  \A n \in Names : lastReceived[n] # NotReceived => data[n] = lastReceived[n]

\* C3 as amended: for every name that has received a value, data[name] is
\* the value most recently received for that name, provided no unnamed
\* snapshot or unnamed update arrived after it (those replace the whole
\* data object).
C3_DataIsLastReceivedUnlessReplaced ==
  \A n \in Names :
    (lastReceived[n] # NotReceived /\ n \notin replaced) => data[n] = lastReceived[n]

\* C3 witness: the element holds an unnamed subscription next to a named
\* one, and an update callback has just delivered "v2" for the name title,
\* which data now holds.
C3_Witness ==
  /\ Handler = "updateCallback"
  /\ \E h \in Handles(State) : callbackName[h] = NoName
  /\ lastReceived["title"] = "v2"
  /\ data["title"] = "v2"
  /\ replaced = {}

\* C4: setting the data-title attribute of the element makes it re-render,
\* at once or through a deferred render.
C4_AttributeChangeRenders ==
  Handler = "setAttribute:data-title" => (Did("render") \/ Did("setTimeout:render"))

\* C5 as claimed: neither attributeChangedCallback for data-store nor a
\* store update callback calls render() itself.
C5_NoSynchronousRender ==
  Handler \in {"setAttribute:data-store", "updateCallback"} => ~Did("render")

\* C5 as amended: attributeChangedCallback for data-store never calls
\* render() itself, it hands render to the timer facility, and that timer
\* callback is what renders; a store update callback calls render()
\* itself, after writing the data, and defers only the post-render hooks.
C5_RenderTiming ==
  /\ (Handler = "setAttribute:data-store") =>
       (/\ ~Did("render")
        /\ ~Did("renderTemplate")
        /\ trace[Len(trace)] = "setTimeout:render")
  /\ (Handler = "timer:render") => Did("render")
  /\ (Handler = "updateCallback") =>
       (/\ Before("beforeUpdate", "render")
        /\ Did("renderTemplate")
        /\ ~Did("setTimeout:render")
        /\ ~Did("onRender"))

\* C5 witness: both kinds of handler have run: a store update callback is
\* the last one, and a deferred render from an attribute change is pending.
C5_Witness ==
  /\ Handler = "updateCallback"
  /\ pendingDeferred > 0
  /\ Did("renderTemplate")

C7_NoCancellation ==
  /\ [][
         /\ (pendingPost' < pendingPost) =>
              (/\ Handler' = "timer:postRender"
               /\ pendingPost' = pendingPost - 1
               /\ onRenderCalls' = onRenderCalls + 1
               /\ renderedEvents' = renderedEvents + 1)
         /\ (pendingDeferred' < pendingDeferred) =>
              (/\ Handler' = "timer:render"
               /\ pendingDeferred' = pendingDeferred - 1
               /\ renderCalls' = renderCalls + 1)
       ]_vars
  /\ []<>(pendingPost = 0 /\ pendingDeferred = 0)

\* C7 witness: disconnectedCallback has run while a post-render callback
\* and a deferred render were both pending.
C7_Witness ==
  /\ Handler = "disconnectedCallback"
  /\ pendingPost > 0
  /\ pendingDeferred > 0

\* C8: when disconnectedCallback has run, no listener added with on() is
\* attached any more, on the element or on another target: dispatching
\* its event on its target does not invoke its callback.
C8_ListenersDetachedAfterDisconnect ==
  Handler = "disconnectedCallback" =>
    \A i \in 1..Len(events) :
      events[i].fn \notin Invoked(listeners, events[i].target, events[i].event)

\* C8 witness: disconnectedCallback has run on an element that had added
\* one listener to itself and one to another target.
C8_Witness ==
  /\ Handler = "disconnectedCallback"
  /\ \E i, j \in 1..Len(events) :
       events[i].target = "this" /\ events[j].target = "window"

\* C9: onFirstRender is called at most once, it has been called exactly
\* once whenever onRender has been called, and in the callback that calls
\* both it comes first; this.rendered is true exactly when it has been
\* called and never goes back to false; and once the template has been
\* rendered, onFirstRender is eventually called.
C9_FirstRenderOnce ==
  /\ [](/\ onFirstRenderCalls <= 1
        /\ (onRenderCalls >= 1 => onFirstRenderCalls = 1)
        /\ (rendered <=> onFirstRenderCalls = 1)
        /\ (Did("onFirstRender") => Before("onFirstRender", "onRender"))
        /\ (Did("onFirstRender") => onRenderCalls = 1))
  /\ [][rendered => rendered']_vars
  /\ (templateRenders >= 1) ~> (onFirstRenderCalls = 1)

\* C9 witness: two renders were issued before the first post-render
\* callback fired, and both callbacks have run.
C9_Witness ==
  /\ Handler = "timer:postRender"
  /\ onRenderCalls = 2
  /\ templateRenders >= 2
  /\ ~Did("onFirstRender")
  /\ onFirstRenderCalls = 1

\* C10: every template render is followed by exactly one onRender call and
\* one 'rendered' event: the calls made and the callbacks still pending
\* add up to the renders performed, onRender never runs ahead of the
\* renders, and under the host's timer fairness the onRender calls and
\* 'rendered' events catch up with the renders again and again.
C10_OneOnRenderPerRender ==
  /\ [](/\ onRenderCalls <= templateRenders
        /\ onRenderCalls + pendingPost = templateRenders
        /\ renderedEvents = onRenderCalls
        /\ (Did("renderTemplate") => Did("setTimeout:postRender"))
        /\ (Handler = "connectedCallback" => Did("renderTemplate")))
  /\ []<>(onRenderCalls = templateRenders /\ renderedEvents = templateRenders)

\* C10 witness: a connected element has rendered its template three times
\* and the last post-render callback has just run: every render has had
\* its onRender call and its 'rendered' event.
C10_Witness ==
  /\ Handler = "timer:postRender"
  /\ connected
  /\ templateRenders = 3
  /\ onRenderCalls = 3
  /\ renderedEvents = 3
  /\ pendingPost = 0

\* C11: in every store update callback, named or unnamed, beforeUpdate
\* runs first, then the element's data is written (once), then render()
\* is called (once): no write precedes beforeUpdate, no render precedes
\* the write.
C11_UpdateOrder ==
  Handler = "updateCallback" =>
    /\ Len(trace) >= 4
    /\ trace[2] = "beforeUpdate"
    /\ trace[3] \in {"data[name]=", "data="}
    /\ trace[4] = "render"
    /\ \A i \in 5..Len(trace) :
         trace[i] \notin {"beforeUpdate", "data[name]=", "data=", "render"}

\* C11 witness: an update callback of an unnamed subscription has run on
\* an element that also received a value under a name, and replaced the
\* whole data object.
C11_Witness ==
  /\ Handler = "updateCallback"
  /\ Did("data=")
  /\ replaced # {}

\* C12: when a handler has subscribed a single store without a name, the
\* handle it made is the one filed as subscriptions[""], and what was
\* received for it was written as the element's whole data object, not
\* under a name.
C12_UnnamedFiledUnderEmptyName ==
  (/\ Did("subscribeToStore")
   /\ callbackName # <<>>
   /\ callbackName[Len(callbackName)] = NoName) =>
    /\ subscriptions[NoName] = Len(callbackName)
    /\ Did("data=")
    /\ ~Did("data[name]=")
    /\ data \in Objects

\* C13: in the bundle, when disconnectedCallback of an element that
\* extends plain CustomElement has run, every listener remover registered
\* by on() has been run and no error was raised.
C13_PlainDisconnectCompletes ==
  Handler = "disconnectedCallback" =>
    /\ \A i \in 1..Len(events) : events[i] \notin listeners
    /\ ~Did("TypeError")

====
